---------------------------- MODULE Spec2Model ----------------------------
(***************************************************************************)
(* Lock manager of the LFS test server's MetaStore (src/meta_store.go):    *)
(* LockAdd, LockDelete and LockList over the two bolt buckets "locks"      *)
(* (big-endian id -> gob record) and "lockPaths" (path -> gob record).     *)
(*                                                                         *)
(* A bolt write transaction (db.Update) is modelled by its steps: the      *)
(* caller takes the database's single writer lock, works on a private copy *)
(* of the buckets and of the bucket sequence, and the copy replaces the    *)
(* committed buckets on commit or is dropped on rollback.  A read          *)
(* transaction (db.View) reads the committed buckets in one step.          *)
(***************************************************************************)
EXTENDS Integers, Sequences, FiniteSets, TLC

VARIABLES
    locks,      \* committed bucket "locks":     id   -> gob value
    lockPaths,  \* committed bucket "lockPaths": path -> gob value
    seq,        \* committed sequence of bucket "lockPaths" (NextSequence)
    writer,     \* the caller holding bolt's writer lock, or NoProc
    tx,         \* per caller: the open write transaction's working copy
    pc,         \* per caller: position in the operation it runs
    call,       \* per caller: the operation invoked and its arguments
    local,      \* per caller: the operation's local variables
    ret,        \* per caller: what the operation returned
    issued,     \* history: ids returned by successful LockAdd calls, in order
    rivals,     \* history: callers whose call overlapped this caller's call
    objects,    \* committed bucket "objects": oid  -> gob value
    users,      \* committed bucket "users":   name -> password
    public,     \* Config.IsPublic()
    request,    \* per caller: the HTTP request its handler serves
    page        \* history: the last page LockList("", ..) returned with hasMore

vars == <<locks, lockPaths, seq, writer, tx, pc, call, local, ret, issued, rivals,
          objects, users, public, request, page>>

\* The object and user store with its configuration.
metaVars == <<objects, users, public>>

-----------------------------------------------------------------------------
(* Bounds and input sets *)

\* Successful LockAdd calls per run: of the concurrent callers, of the one caller
\* that also lists.
MaxSeq == 2
MaxListSeq == 3
\* Largest limit handed to LockList.
MaxLimit == 3
\* Successful LockAdd calls in a run of every operation under fairness.
MaxLiveSeq == 1

P1 == "p1"
P2 == "p2"
Procs == {P1, P2}
NoProc == "none"

\* Owner names are strings, written like the paths as sequences.
Alice == <<"alice">>
Bob == <<"bob">>
Owners == {Alice, Bob}
Times == {"t1"}

\* Paths are strings, written as sequences of characters.
PathAX == <<"/", "a", "/", "x">>
PathBY == <<"/", "b", "/", "y">>
PathAZ == <<"/", "a", "/", "z">>
EmptyPath == << >>
\* The paths the concurrent callers lock, and those of the one caller that lists.
Paths == {PathAX, PathBY, EmptyPath}
ListPaths == {PathAX, PathBY, PathAZ, EmptyPath}

\* Glob patterns handed to LockList ("" means no filter).
Patterns == {<< >>, PathAX, <<"/", "a", "/", "*">>, <<"/", "*", "/", "?">>,
             <<"*">>, <<"[">>}

Cursors == 0 .. (MaxListSeq + 1)
Limits == 0 .. MaxLimit

-----------------------------------------------------------------------------
(* Records and their gob encoding *)

Fields == {"ID", "Path", "Owner", "LockedAt"}

\* The zero value of MetaLock (var meta MetaLock).
ZeroLock == [ID |-> 0, Path |-> << >>, Owner |-> << >>, LockedAt |-> ""]

\* A nil *MetaLock.
NilLock == [nil |-> TRUE]

MetaLock(id, path, owner, at) ==
    [ID |-> id, Path |-> path, Owner |-> owner, LockedAt |-> at]

\* gob sends only the fields that differ from their zero value.
Encode(meta) ==
    [f \in {g \in Fields : meta[g] # ZeroLock[g]} |-> meta[f]]

\* gob sets the fields the value carries and leaves the others as they are.
Decode(value, into) ==
    [f \in Fields |-> IF f \in DOMAIN value THEN value[f] ELSE into[f]]

-----------------------------------------------------------------------------
(* Keys of the "locks" bucket *)

\* Fault seeded for C13: the key is written low byte first.
ItobLittleEndian(v) == [i \in 1 .. 8 |-> IF i > 4 THEN 0 ELSE (v \div (256 ^ (i - 1))) % 256]

\* itob: the 8-byte big-endian representation of v.  The ids and cursors of
\* the model are below 2^32, so their four high bytes are 0.
itob(v) == [i \in 1 .. 8 |-> IF i <= 4 THEN 0 ELSE (v \div (256 ^ (8 - i))) % 256]

\* bytes.Compare(a, b) < 0 on equal-length keys: bolt's key order.
RECURSIVE BytesLess(_, _)
BytesLess(a, b) ==
    IF a = << >> \/ b = << >> THEN FALSE
    ELSE IF Head(a) # Head(b) THEN Head(a) < Head(b)
    ELSE BytesLess(Tail(a), Tail(b))

\* For every id of a bucket, the number of keys of the bucket before its key.
KeysBefore(ks) ==
    [k \in ks |-> Cardinality({y \in ks : BytesLess(itob(y), itob(k))})]

\* The ids of a bucket in the order a bolt cursor visits their keys: the i-th
\* is the id whose key has i - 1 keys before it.
SortedKeys(ks) ==
    CHOOSE keys \in {[i \in 1 .. Cardinality(ks) |-> CHOOSE k \in ks : before[k] = i - 1] :
                       before \in {KeysBefore(ks)}} : TRUE

-----------------------------------------------------------------------------
(* Buckets *)

EmptyBucket == [k \in {} |-> ZeroLock]

BucketGet(b, k) == IF k \in DOMAIN b THEN <<b[k]>> ELSE << >>

BucketPut(b, k, v) == [x \in DOMAIN b \cup {k} |-> IF x = k THEN v ELSE b[x]]

BucketDelete(b, k) == [x \in DOMAIN b \ {k} |-> b[x]]

\* bolt refuses an empty key (ErrKeyRequired).
KeyRefused(k) == k = << >>

NoTx == [open |-> FALSE, locks |-> EmptyBucket, lockPaths |-> EmptyBucket, seq |-> 0]


-----------------------------------------------------------------------------
(* path.Match as LockList uses it *)

NoSlash(s) == \A i \in 1 .. Len(s) : s[i] # "/"

\* path.Match(pattern, name) reporting a match without error: '*' matches any
\* run of non-'/' characters, '?' one non-'/' character, any other character
\* itself; an unclosed '[' is ErrBadPattern, which LockList treats as no match.
RECURSIVE Match(_, _)
Match(pattern, name) ==
    IF pattern = << >> THEN name = << >>
    ELSE IF Head(pattern) = "*"
         THEN \E k \in 0 .. Len(name) :
                 /\ NoSlash(SubSeq(name, 1, k))
                 /\ Match(Tail(pattern), SubSeq(name, k + 1, Len(name)))
    ELSE IF Head(pattern) = "["
         THEN FALSE
    ELSE IF Head(pattern) = "?"
         THEN name # << >> /\ Head(name) # "/" /\ Match(Tail(pattern), Tail(name))
    ELSE name # << >> /\ Head(name) = Head(pattern) /\ Match(Tail(pattern), Tail(name))

-----------------------------------------------------------------------------
(* LockList: one read transaction over the committed "locks" bucket *)

\* limit clamped to [1, 100].
MaxListLimit == 100

\* Fault seeded for C20: the upper end of the clamp is missing.
ClampLimitBelow(limit) == IF limit < 1 THEN 1 ELSE limit

\* if limit > 100 { limit = 100 } else if limit < 1 { limit = 1 }
ClampLimit(limit) ==
    IF limit < 1 THEN 1 ELSE IF limit > MaxListLimit THEN MaxListLimit ELSE limit

\* Fault seeded for C11: the cursor argument is ignored, the scan starts at the
\* first key.
SeekFirst(keys, cursor) == 1

\* c.Seek(itob(cursor)): index, in cursor order, of the first key >= itob(cursor);
\* Len(keys) + 1 stands for k == nil.
Seek(keys, cursor) ==
    LET before == {i \in 1 .. Len(keys) : BytesLess(itob(keys[i]), itob(cursor))}
    IN  Cardinality(before) + 1

\* Whether the entry is appended (matchpath == "" or the path matches).
Accepts(matchpath, meta) ==
    matchpath = << >> \/ Match(matchpath, meta.Path)

\* Fault seeded for C12: an entry that is skipped uses up the limit as well.
ListStepCounting(b, keys, matchpath, st) ==
    LET meta == Decode(b[keys[st.at]], ZeroLock)
    IN  [locks |-> IF Accepts(matchpath, meta) THEN Append(st.locks, meta) ELSE st.locks,
         limit |-> st.limit - 1,
         at |-> st.at + 1]

\* One iteration of the for loop with the cursor at index st.at: the entry is
\* decoded and, when accepted, appended and counted; then c.Next().
ListStep(b, keys, matchpath, st) ==
    LET meta == Decode(b[keys[st.at]], ZeroLock)
    IN  IF Accepts(matchpath, meta)
        THEN [locks |-> Append(st.locks, meta), limit |-> st.limit - 1, at |-> st.at + 1]
        ELSE [st EXCEPT !.at = @ + 1]

\* At most n iterations of the for loop from st, the loop condition
\* (limit > 0 && k != nil) tested before each; the n iterations are run as two
\* halves, the second from the state the first has left.
RECURSIVE ListRange(_, _, _, _, _)
ListRange(b, keys, matchpath, n, st) ==
    IF n = 0 \/ st.limit <= 0 \/ st.at > Len(keys) THEN st
    ELSE IF n = 1 THEN ListStep(b, keys, matchpath, st)
    ELSE CHOOSE r \in {ListRange(b, keys, matchpath, n - n \div 2, half) :
                         half \in {ListRange(b, keys, matchpath, n \div 2, st)}} : TRUE

\* The for loop: entered with the cursor at index i, limit still to collect and
\* acc collected; it runs at most once per key.  Returns the collected locks
\* and the index the cursor is left at.
ListLoop(b, keys, matchpath, i, limit, acc) ==
    LET r == ListRange(b, keys, matchpath, Len(keys),
                       [locks |-> acc, limit |-> limit, at |-> i])
    IN  [locks |-> r.locks, at |-> r.at]

\* Fault seeded for C9: the "if k == nil" reset is missing.
ListPendingAlways(keys, at) == TRUE

\* pending = true before the loop, false when the loop left k == nil.
ListPending(keys, at) == at <= Len(keys)

\* Fault seeded for C10: the next cursor is the last returned id itself.
ListCursorLastID(found, pending, cursor) ==
    IF pending /\ Len(found) > 0 THEN found[Len(found)].ID ELSE cursor

\* Fault seeded for C23: the next cursor passes over the id after the last
\* returned one.
ListCursorSkipping(found, pending, cursor) ==
    IF pending /\ Len(found) > 0 THEN found[Len(found)].ID + 2 ELSE cursor

\* The cursor returned: pending && len(locks) > 0 ? last.ID + 1 : cursor.
ListCursor(found, pending, cursor) ==
    IF pending /\ Len(found) > 0 THEN found[Len(found)].ID + 1 ELSE cursor

LockListOp(b, matchpath, cursor, limit) ==
    LET keys == SortedKeys(DOMAIN b)
        r == ListLoop(b, keys, matchpath, Seek(keys, cursor), ClampLimit(limit), << >>)
        pending == ListPending(keys, r.at)
    IN  [locks |-> r.locks,
         cursor |-> ListCursor(r.locks, pending, cursor),
         pending |-> pending]

-----------------------------------------------------------------------------
(* Calls and results *)

ErrNone == "nil"
ErrDuplicate == "errDuplicateObject"
ErrNotFound == "errObjectNotFound"
ErrUnauthorized == "errUnauthorized"
ErrEngine == "bolt error"
ErrKeyRequired == "key required"
ErrAuth == "Forbidden"

\* An empty Authorization string.
NoAuthorization == [scheme |-> "", payload |-> << >>]

\* A nil *MetaObject.
NilObject == [nil |-> TRUE]

NoCall == [op |-> "none", path |-> << >>, owner |-> << >>, id |-> 0, force |-> FALSE,
           at |-> "", cursor |-> 0, limit |-> 0,
           authorization |-> NoAuthorization, oid |-> << >>, size |-> 0,
           user |-> << >>, pass |-> << >>]

NoRet == [err |-> ErrNone, lock |-> NilLock, locks |-> << >>, cursor |-> 0,
          pending |-> FALSE, meta |-> NilObject]

NoLocal == [meta |-> ZeroLock, existingMeta |-> ZeroLock]

\* The "objects" and "users" buckets of a new database.
EmptyObjects == [k \in {} |-> << >>]
EmptyUsers == [k \in {} |-> << >>]

\* No request is being served: no handler runs, and no response was written.
NoRequest == [handler |-> "none", user |-> << >>, pass |-> << >>, ok |-> FALSE,
              status |-> 0, locks |-> << >>, ours |-> << >>, theirs |-> << >>]

\* No page was returned with hasMore yet.
NoPage == [ids |-> {}, cursor |-> 0, pending |-> FALSE, added |-> FALSE,
           deleted |-> FALSE]

Running(p) == pc[p] \notin {"idle", "done"}

PendingAdds == Cardinality({p \in Procs : Running(p) /\ call[p].op = "LockAdd"})

Init ==
    /\ locks = EmptyBucket
    /\ lockPaths = EmptyBucket
    /\ seq = 0
    /\ writer = NoProc
    /\ tx = [p \in Procs |-> NoTx]
    /\ pc = [p \in Procs |-> "idle"]
    /\ call = [p \in Procs |-> NoCall]
    /\ local = [p \in Procs |-> NoLocal]
    /\ ret = [p \in Procs |-> NoRet]
    /\ issued = << >>
    /\ rivals = [p \in Procs |-> {}]
    /\ objects = EmptyObjects
    /\ users = EmptyUsers
    /\ public = FALSE
    /\ request = [p \in Procs |-> NoRequest]
    /\ page = NoPage

\* A call by p starts: it overlaps every call that is running now.
Overlap(p) ==
    [q \in Procs |->
        IF q = p THEN {r \in Procs \ {p} : Running(r)}
        ELSE IF Running(q) THEN rivals[q] \cup {p}
        ELSE rivals[q] \ {p}]

\* The caller invokes LockAdd(filepath, owner); time.Now() will read at.
\* A run holds at most cap calls for a path that is unlocked when they start,
\* and one more call at a time for a path that is locked.
CallLockAdd(p, filepath, owner, at, cap) ==
    /\ pc[p] = "idle"
    /\ seq + PendingAdds < (IF filepath \in DOMAIN lockPaths THEN cap + 1 ELSE cap)
    /\ pc' = [pc EXCEPT ![p] = "update"]
    /\ call' = [call EXCEPT ![p] = [NoCall EXCEPT !.op = "LockAdd", !.path = filepath,
                                                  !.owner = owner, !.at = at]]
    /\ local' = [local EXCEPT ![p] = NoLocal]
    /\ ret' = [ret EXCEPT ![p] = NoRet]
    /\ rivals' = Overlap(p)
    /\ UNCHANGED <<metaVars, page, locks, lockPaths, seq, writer, tx, issued>>

\* The caller invokes LockDelete(id, owner, force).
CallLockDelete(p, id, owner, force) ==
    /\ pc[p] = "idle"
    /\ pc' = [pc EXCEPT ![p] = "update"]
    /\ call' = [call EXCEPT ![p] = [NoCall EXCEPT !.op = "LockDelete", !.id = id,
                                                  !.owner = owner, !.force = force]]
    /\ local' = [local EXCEPT ![p] = NoLocal]
    /\ ret' = [ret EXCEPT ![p] = NoRet]
    /\ rivals' = Overlap(p)
    /\ UNCHANGED <<metaVars, page, locks, lockPaths, seq, writer, tx, issued>>

-----------------------------------------------------------------------------
(* db.Update: the write transaction *)

\* Fault seeded for C4: the check and the writes run outside the writer lock.
WriterAlwaysFree == TRUE

\* bolt grants the writer lock to one transaction at a time.
WriterFree == writer = NoProc

\* db.Update(fn) begins: the caller takes the writer lock and a working copy.
Update(p) ==
    /\ pc[p] = "update"
    /\ WriterFree
    /\ writer' = p
    /\ tx' = [tx EXCEPT ![p] = [open |-> TRUE, locks |-> locks,
                                lockPaths |-> lockPaths, seq |-> seq]]
    /\ pc' = [pc EXCEPT ![p] = IF call[p].op = "LockAdd" THEN "add_get" ELSE "del_get"]
    /\ UNCHANGED <<metaVars, request, page, locks, lockPaths, seq, call, local, ret, issued, rivals>>

\* What LockAdd returns for the error fn returned: &existingMeta with
\* errDuplicateObject, nil with any other error.
LockAddError(p, err) ==
    [NoRet EXCEPT !.err = err,
                  !.lock = IF err = ErrDuplicate THEN local[p].existingMeta ELSE NilLock]

\* What LockDelete returns for the error fn returned: nil.
LockDeleteError(p, err) == [NoRet EXCEPT !.err = err]

OpError(p, err) ==
    IF call[p].op = "LockAdd" THEN LockAddError(p, err) ELSE LockDeleteError(p, err)

\* Fault seeded for C2: the writes to "locks" made before the error are kept.
RollbackKeepsLocks(p, err) ==
    /\ locks' = tx[p].locks
    /\ tx' = [tx EXCEPT ![p] = NoTx]
    /\ writer' = NoProc
    /\ pc' = [pc EXCEPT ![p] = "done"]
    /\ ret' = [ret EXCEPT ![p] = OpError(p, err)]
    /\ UNCHANGED <<metaVars, request, page, lockPaths, seq, call, issued, rivals>>

\* Fault seeded for C18: the sequence drawn before the error is kept.
RollbackKeepsSequence(p, err) ==
    /\ seq' = tx[p].seq
    /\ tx' = [tx EXCEPT ![p] = NoTx]
    /\ writer' = NoProc
    /\ pc' = [pc EXCEPT ![p] = "done"]
    /\ ret' = [ret EXCEPT ![p] = OpError(p, err)]
    /\ UNCHANGED <<metaVars, request, page, locks, lockPaths, call, issued, rivals>>

\* Fault seeded for C21: the rollback does not release the writer lock.
RollbackHoldsWriter(p, err) ==
    /\ tx' = [tx EXCEPT ![p] = NoTx]
    /\ pc' = [pc EXCEPT ![p] = "done"]
    /\ ret' = [ret EXCEPT ![p] = OpError(p, err)]
    /\ UNCHANGED <<metaVars, request, page, locks, lockPaths, seq, writer, call, issued, rivals>>

\* fn returned err: bolt rolls the transaction back and Update returns err.
Rollback(p, err) ==
    /\ tx' = [tx EXCEPT ![p] = NoTx]
    /\ writer' = NoProc
    /\ pc' = [pc EXCEPT ![p] = "done"]
    /\ ret' = [ret EXCEPT ![p] = OpError(p, err)]
    /\ UNCHANGED <<metaVars, request, page, locks, lockPaths, seq, call, issued, rivals>>

\* Fault seeded for C1: the duplicate check is dropped.
IsDuplicateNever(txn, filepath, owner) == FALSE

\* Fault seeded for C8: a second request by the holder of the lock is granted.
IsDuplicateOtherOwner(txn, filepath, owner) ==
    /\ BucketGet(txn.lockPaths, filepath) # << >>
    /\ Decode(txn.lockPaths[filepath], ZeroLock).Owner # owner

\* pb.Get(filepath) found a value: the path is locked.
IsDuplicate(txn, filepath, owner) == BucketGet(txn.lockPaths, filepath) # << >>

\* Fault seeded for C5: the id is the first one above the ids in use.
NextSequenceUnused(txn) ==
    IF DOMAIN txn.locks = {} THEN 1
    ELSE 1 + CHOOSE m \in DOMAIN txn.locks : \A k \in DOMAIN txn.locks : k <= m

\* pb.NextSequence(): the bucket's sequence, incremented.
NextSequence(txn) == txn.seq + 1

\* LockAdd, up to the record being built: the duplicate check, then the id.
LockAddGet(p) ==
    /\ pc[p] = "add_get"
    /\ IF IsDuplicate(tx[p], call[p].path, call[p].owner)
       THEN /\ Rollback(p, ErrDuplicate)
            /\ UNCHANGED local
       ELSE LET id == NextSequence(tx[p])
            IN  /\ tx' = [tx EXCEPT ![p].seq = id]
                /\ local' = [local EXCEPT ![p].meta =
                                 MetaLock(id, call[p].path, call[p].owner, call[p].at)]
                /\ pc' = [pc EXCEPT ![p] = "add_put_locks"]
                /\ UNCHANGED <<metaVars, request, page, locks, lockPaths, seq, writer, call, ret, issued, rivals>>

\* lb.Put(itob(id), bufBytes); ok is whether the engine accepts the write.
LockAddPutLocks(p, ok) ==
    /\ pc[p] = "add_put_locks"
    /\ IF ok
       THEN /\ tx' = [tx EXCEPT ![p].locks =
                          BucketPut(@, local[p].meta.ID, Encode(local[p].meta))]
            /\ pc' = [pc EXCEPT ![p] = "add_put_paths"]
            /\ UNCHANGED <<metaVars, request, page, locks, lockPaths, seq, writer, call, local, ret, issued, rivals>>
       ELSE /\ Rollback(p, ErrEngine)
            /\ UNCHANGED local

\* pb.Put([]byte(filepath), bufBytes), then existingMeta = meta.
LockAddPutPaths(p, ok) ==
    /\ pc[p] = "add_put_paths"
    /\ IF ok /\ ~KeyRefused(call[p].path)
       THEN /\ tx' = [tx EXCEPT ![p].lockPaths =
                          BucketPut(@, call[p].path, Encode(local[p].meta))]
            /\ local' = [local EXCEPT ![p].existingMeta = local[p].meta]
            /\ pc' = [pc EXCEPT ![p] = "commit"]
            /\ UNCHANGED <<metaVars, request, page, locks, lockPaths, seq, writer, call, ret, issued, rivals>>
       ELSE /\ Rollback(p, ErrEngine)
            /\ UNCHANGED local

\* Fault seeded for C6: the owner comparison is inverted.
UnauthorizedInverted(force, owner, meta) == ~force /\ owner = meta.Owner

\* !force && owner != meta.Owner
Unauthorized(force, owner, meta) == ~force /\ owner # meta.Owner

\* LockDelete, up to the authorization check: lb.Get(idBytes), decode, compare.
LockDeleteGet(p) ==
    /\ pc[p] = "del_get"
    /\ LET value == BucketGet(tx[p].locks, call[p].id)
       IN  IF value = << >>
           THEN /\ Rollback(p, ErrNotFound)
                /\ UNCHANGED local
           ELSE LET meta == Decode(value[1], local[p].meta)
                IN  /\ local' = [local EXCEPT ![p].meta = meta]
                    /\ IF Unauthorized(call[p].force, call[p].owner, meta)
                       THEN Rollback(p, ErrUnauthorized)
                       ELSE /\ pc' = [pc EXCEPT ![p] = "del_locks"]
                            /\ UNCHANGED <<metaVars, request, page, locks, lockPaths, seq, writer, tx, call, ret,
                                           issued, rivals>>

\* Fault seeded for C7: the path is taken from the call, which carries none.
DeletedPathFromCall(p) == call[p].path

\* The key pb.Delete removes: []byte(meta.Path).
DeletedPath(p) == local[p].meta.Path

\* lb.Delete(idBytes)
LockDeleteLocks(p, ok) ==
    /\ pc[p] = "del_locks"
    /\ IF ok
       THEN /\ tx' = [tx EXCEPT ![p].locks = BucketDelete(@, call[p].id)]
            /\ pc' = [pc EXCEPT ![p] = "del_paths"]
            /\ UNCHANGED <<metaVars, request, page, locks, lockPaths, seq, writer, call, local, ret, issued, rivals>>
       ELSE /\ Rollback(p, ErrEngine)
            /\ UNCHANGED local

\* pb.Delete([]byte(meta.Path))
LockDeletePaths(p, ok) ==
    /\ pc[p] = "del_paths"
    /\ IF ok
       THEN /\ tx' = [tx EXCEPT ![p].lockPaths = BucketDelete(@, DeletedPath(p))]
            /\ pc' = [pc EXCEPT ![p] = "commit"]
            /\ UNCHANGED <<metaVars, request, page, locks, lockPaths, seq, writer, call, local, ret, issued, rivals>>
       ELSE /\ Rollback(p, ErrEngine)
            /\ UNCHANGED local

\* The paging history after a commit of LockAdd or LockDelete: whether a lock
\* was added, or deleted, since the page was returned.
PageAfterStep ==
    IF page.pending
    THEN [page EXCEPT !.added = @ \/ DOMAIN locks' \ DOMAIN locks # {},
                      !.deleted = @ \/ DOMAIN locks \ DOMAIN locks' # {}]
    ELSE page

\* The paging history after LockList("", ..) returned r to the caller.
PageAfterList(r) ==
    IF r.pending
    THEN [ids |-> {r.locks[i].ID : i \in 1 .. Len(r.locks)}, cursor |-> r.cursor,
          pending |-> TRUE, added |-> FALSE, deleted |-> FALSE]
    ELSE page

\* What the operation returns after a commit: &existingMeta, &meta.
OpResult(p) ==
    [NoRet EXCEPT !.lock = IF call[p].op = "LockAdd" THEN local[p].existingMeta
                           ELSE local[p].meta]

\* fn returned nil: bolt commits the working copy (or fails to, and rolls back),
\* releases the writer lock, and the operation returns.
Commit(p, ok) ==
    /\ pc[p] = "commit"
    /\ IF ok
       THEN /\ locks' = tx[p].locks
            /\ lockPaths' = tx[p].lockPaths
            /\ seq' = tx[p].seq
            /\ tx' = [tx EXCEPT ![p] = NoTx]
            /\ writer' = NoProc
            /\ pc' = [pc EXCEPT ![p] = "done"]
            /\ ret' = [ret EXCEPT ![p] = OpResult(p)]
            /\ issued' = IF call[p].op = "LockAdd"
                         THEN Append(issued, local[p].existingMeta.ID) ELSE issued
            /\ rivals' = IF call[p].op = "LockDelete"
                         THEN [q \in Procs |-> {}] ELSE rivals
            /\ page' = PageAfterStep
            /\ UNCHANGED <<metaVars, request, call, local>>
       ELSE /\ Rollback(p, ErrEngine)
            /\ UNCHANGED local

\* The caller is done with the result.
Return(p) ==
    /\ pc[p] = "done"
    /\ pc' = [pc EXCEPT ![p] = "idle"]
    /\ call' = [call EXCEPT ![p] = NoCall]
    /\ local' = [local EXCEPT ![p] = NoLocal]
    /\ ret' = [ret EXCEPT ![p] = NoRet]
    /\ rivals' = [rivals EXCEPT ![p] = {}]
    /\ request' = [request EXCEPT ![p] = NoRequest]
    /\ UNCHANGED <<metaVars, page, locks, lockPaths, seq, writer, tx, issued>>

\* LockList(matchpath, cursor, limit): one db.View over the committed buckets.
LockList(p, matchpath, cursor, limit) ==
    /\ pc[p] = "idle"
    /\ LET r == LockListOp(locks, matchpath, cursor, limit)
       IN  ret' = [ret EXCEPT ![p] = [NoRet EXCEPT !.locks = r.locks,
                                                   !.cursor = r.cursor,
                                                   !.pending = r.pending]]
    /\ call' = [call EXCEPT ![p] = [NoCall EXCEPT !.op = "LockList", !.path = matchpath,
                                                  !.cursor = cursor, !.limit = limit]]
    /\ pc' = [pc EXCEPT ![p] = "done"]
    /\ UNCHANGED <<metaVars, locks, lockPaths, seq, writer, tx, local, issued, rivals>>

-----------------------------------------------------------------------------
(* Object records and credentials *)

lockVars == <<locks, lockPaths, seq, writer, tx, local, issued, rivals>>

ObjectFields == {"Oid", "Size", "Existing"}

\* The zero value of MetaObject (var meta MetaObject).
ZeroObject == [Oid |-> << >>, Size |-> 0, Existing |-> FALSE]

\* MetaObject{Oid: v.Oid, Size: v.Size}.
MetaObject(oid, size) == [Oid |-> oid, Size |-> size, Existing |-> FALSE]

\* gob sends only the fields that differ from their zero value, and sets only
\* the fields the value carries.
EncodeObject(meta) ==
    [f \in {g \in ObjectFields : meta[g] # ZeroObject[g]} |-> meta[f]]

DecodeObject(value, into) ==
    [f \in ObjectFields |-> IF f \in DOMAIN value THEN value[f] ELSE into[f]]

\* The characters of user names and passwords, by their base64 code: a code
\* outside the table is not base64.
Alphabet == <<"u", "s", "t", ":", "a", "p">>

\* base64.StdEncoding.DecodeString: an error, or the string decoded.
DecodeString(payload) ==
    IF \E i \in 1 .. Len(payload) : payload[i] \notin 1 .. Len(Alphabet)
    THEN [err |-> TRUE, c |-> << >>]
    ELSE [err |-> FALSE, c |-> [i \in 1 .. Len(payload) |-> Alphabet[payload[i]]]]

\* strings.IndexByte(cs, ':') + 1: the position of the first ':', 0 if none.
IndexColon(cs) ==
    IF \E i \in 1 .. Len(cs) : cs[i] = ":"
    THEN CHOOSE i \in 1 .. Len(cs) : cs[i] = ":" /\ \A j \in 1 .. (i - 1) : cs[j] # ":"
    ELSE 0

\* The static administrator credential of the configuration.
AdminUser == <<"a">>
AdminPass == <<"p">>

\* checkBasicAuth(user, pass, ok).
checkBasicAuth(user, pass, ok) == ok /\ user = AdminUser /\ pass = AdminPass

\* string(bucket.Get([]byte(user))) on the "users" bucket u.
UserValue(u, user) == IF user \in DOMAIN u THEN u[user] ELSE << >>

\* authenticate(authorization) on the committed "users" bucket.
authenticate(authorization) ==
    \/ public
    \/ /\ authorization # NoAuthorization
       /\ authorization.scheme = "Basic "
       /\ ~DecodeString(authorization.payload).err
       /\ LET cs == DecodeString(authorization.payload).c
              i == IndexColon(cs)
              user == SubSeq(cs, 1, i - 1)
              password == SubSeq(cs, i + 1, Len(cs))
              value == UserValue(users, user)
          IN  /\ i >= 1
              /\ \/ checkBasicAuth(user, password, TRUE)
                 \/ value # << >> /\ value = password

\* Fault seeded for C14: the lookup never finds the record.
ObjectMissingAlways(b, oid) == TRUE

\* len(value) == 0 after bucket.Get([]byte(v.Oid)) on the "objects" bucket b.
ObjectMissing(b, oid) == oid \notin DOMAIN b

\* UnsafeGet: one db.View over the committed "objects" bucket.
UnsafeGetOp(b, oid) ==
    IF ObjectMissing(b, oid)
    THEN [NoRet EXCEPT !.err = ErrNotFound]
    ELSE [NoRet EXCEPT !.meta = DecodeObject(b[oid], ZeroObject)]

-----------------------------------------------------------------------------
(* Get, Put, Delete, AddUser, DeleteUser *)

\* A call starts: its arguments are recorded, nothing is read yet.
CallMeta(p, op, first, c) ==
    /\ pc[p] = "idle"
    /\ pc' = [pc EXCEPT ![p] = first]
    /\ call' = [call EXCEPT ![p] = [c EXCEPT !.op = op]]
    /\ ret' = [ret EXCEPT ![p] = NoRet]
    /\ UNCHANGED <<lockVars, metaVars, request, page>>

CallGet(p, authorization, oid) ==
    CallMeta(p, "Get", "get_auth",
             [NoCall EXCEPT !.authorization = authorization, !.oid = oid])

CallPut(p, authorization, oid, size) ==
    CallMeta(p, "Put", "put_auth",
             [NoCall EXCEPT !.authorization = authorization, !.oid = oid, !.size = size])

CallDelete(p, authorization, oid) ==
    CallMeta(p, "Delete", "delete_auth",
             [NoCall EXCEPT !.authorization = authorization, !.oid = oid])

CallAddUser(p, user, pass) ==
    CallMeta(p, "AddUser", "adduser_update", [NoCall EXCEPT !.user = user, !.pass = pass])

CallDeleteUser(p, user) ==
    CallMeta(p, "DeleteUser", "deleteuser_update", [NoCall EXCEPT !.user = user])

\* The operation returns r.
Done(p, r) ==
    /\ pc' = [pc EXCEPT ![p] = "done"]
    /\ ret' = [ret EXCEPT ![p] = r]

\* The operation goes on at position next.
Goto(p, next) ==
    /\ pc' = [pc EXCEPT ![p] = next]
    /\ UNCHANGED ret

\* Fault seeded for C15: the operation goes on whatever authenticate returned.
GateOpen(p, at, next) ==
    /\ pc[p] = at
    /\ Goto(p, next)
    /\ UNCHANGED <<lockVars, metaVars, call, request, page>>

\* if !s.authenticate(v.Authorization) { return nil, newAuthError() } at the
\* head of Get, Put and Delete.
Gate(p, at, next) ==
    /\ pc[p] = at
    /\ IF authenticate(call[p].authorization)
       THEN Goto(p, next)
       ELSE Done(p, [NoRet EXCEPT !.err = ErrAuth])
    /\ UNCHANGED <<lockVars, metaVars, call, request, page>>

GetAuth(p) == Gate(p, "get_auth", "get_read")

\* meta, error := s.UnsafeGet(v); return meta, error.
GetRead(p) ==
    /\ pc[p] = "get_read"
    /\ Done(p, UnsafeGetOp(objects, call[p].oid))
    /\ UNCHANGED <<lockVars, metaVars, call, request, page>>

PutAuth(p) == Gate(p, "put_auth", "put_get_auth")

\* s.Get(v) inside Put authenticates again: when it refuses, err != nil and Put
\* goes on to write.
PutGetAuth(p) ==
    /\ pc[p] = "put_get_auth"
    /\ Goto(p, IF authenticate(call[p].authorization) THEN "put_get" ELSE "put_update")
    /\ UNCHANGED <<lockVars, metaVars, call, request, page>>

\* if meta, err := s.Get(v); err == nil { meta.Existing = true; return meta, nil }.
PutGet(p) ==
    /\ pc[p] = "put_get"
    /\ LET r == UnsafeGetOp(objects, call[p].oid)
       IN  IF r.err = ErrNone
           THEN Done(p, [r EXCEPT !.meta.Existing = TRUE])
           ELSE Goto(p, "put_update")
    /\ UNCHANGED <<lockVars, metaVars, call, request, page>>

\* A write transaction of one bucket.Put or bucket.Delete: bolt refuses an
\* empty key on Put, and the write or the commit may fail (ok = FALSE).
WriteError(key, ok, put) ==
    IF put /\ KeyRefused(key) THEN ErrKeyRequired
    ELSE IF ~ok THEN ErrEngine
    ELSE ErrNone

\* db.Update with bucket.Put([]byte(v.Oid), buf.Bytes()); return &meta, nil.
PutUpdate(p, ok) ==
    /\ pc[p] = "put_update"
    /\ WriterFree
    /\ LET meta == MetaObject(call[p].oid, call[p].size)
           err == WriteError(call[p].oid, ok, TRUE)
       IN  IF err = ErrNone
           THEN /\ objects' = BucketPut(objects, call[p].oid, EncodeObject(meta))
                /\ Done(p, [NoRet EXCEPT !.meta = meta])
           ELSE /\ UNCHANGED objects
                /\ Done(p, [NoRet EXCEPT !.err = err])
    /\ UNCHANGED <<lockVars, users, public, call, request, page>>

DeleteAuth(p) == Gate(p, "delete_auth", "delete_update")

\* db.Update with bucket.Delete([]byte(v.Oid)); return err.
DeleteUpdate(p, ok) ==
    /\ pc[p] = "delete_update"
    /\ WriterFree
    /\ LET err == WriteError(call[p].oid, ok, FALSE)
       IN  /\ objects' = IF err = ErrNone THEN BucketDelete(objects, call[p].oid)
                         ELSE objects
           /\ Done(p, [NoRet EXCEPT !.err = err])
    /\ UNCHANGED <<lockVars, users, public, call, request, page>>

\* db.Update with bucket.Put([]byte(user), []byte(pass)).
AddUserUpdate(p, ok) ==
    /\ pc[p] = "adduser_update"
    /\ WriterFree
    /\ LET err == WriteError(call[p].user, ok, TRUE)
       IN  /\ users' = IF err = ErrNone THEN BucketPut(users, call[p].user, call[p].pass)
                       ELSE users
           /\ Done(p, [NoRet EXCEPT !.err = err])
    /\ UNCHANGED <<lockVars, objects, public, call, request, page>>

\* db.Update with bucket.Delete([]byte(user)).
DeleteUserUpdate(p, ok) ==
    /\ pc[p] = "deleteuser_update"
    /\ WriterFree
    /\ LET err == WriteError(call[p].user, ok, FALSE)
       IN  /\ users' = IF err = ErrNone THEN BucketDelete(users, call[p].user)
                       ELSE users
           /\ Done(p, [NoRet EXCEPT !.err = err])
    /\ UNCHANGED <<lockVars, objects, public, call, request, page>>

-----------------------------------------------------------------------------
(* The lock request handlers (src/locks.go) *)

HexDigits == <<"0", "1", "2", "3", "4", "5", "6", "7", "8", "9",
               "a", "b", "c", "d", "e", "f">>

HexValue(c) == (CHOOSE i \in 1 .. Len(HexDigits) : HexDigits[i] = c) - 1

RECURSIVE HexNumber(_)
HexNumber(s) ==
    IF s = << >> THEN 0
    ELSE 16 * HexNumber(SubSeq(s, 1, Len(s) - 1)) + HexValue(s[Len(s)])

\* strconv.ParseUint(s, 16, 64): the number and whether s failed to parse.
ParseUint(s) ==
    IF s = << >> \/ \E i \in 1 .. Len(s) : \A d \in 1 .. Len(HexDigits) : HexDigits[d] # s[i]
    THEN [value |-> 0, err |-> TRUE]
    ELSE [value |-> HexNumber(s), err |-> FALSE]

\* ValidateUser(user, pass): user is in the "users" bucket and the stored
\* secret equals pass.
ValidateUser(user, pass) == user \in DOMAIN users /\ users[user] = pass

\* checkAuthentication: the user of the request's Basic credentials, or
\* errUnauthorized after a 403 response was written.
checkAuthentication(user, pass, ok) ==
    IF checkBasicAuth(user, pass, ok) \/ ValidateUser(user, pass)
    THEN [user |-> user, err |-> ErrNone]
    ELSE [user |-> << >>, err |-> ErrUnauthorized]

\* Fault seeded for C19: the handler goes on whatever checkAuthentication
\* returned.
DeniedNever(auth) == FALSE

\* if err != nil { return } after checkAuthentication.
Denied(auth) == auth.err # ErrNone

\* The request p's handler serves, with the credentials r.BasicAuth() reads.
Serving(handler, cred) ==
    [NoRequest EXCEPT !.handler = handler, !.user = cred.user, !.pass = cred.pass,
                      !.ok = cred.ok]

\* The handler returns before it calls the store, the response written with
\* the given status.
Refuse(p, handler, cred, status) ==
    /\ pc[p] = "idle"
    /\ request' = [request EXCEPT ![p] = [Serving(handler, cred) EXCEPT !.status = status]]
    /\ pc' = [pc EXCEPT ![p] = "done"]
    /\ UNCHANGED <<metaVars, page, locks, lockPaths, seq, writer, tx, call, local, ret,
                   issued, rivals>>

\* addLockHandler, up to the call of LockAdd(params.Path, user); decoded is
\* whether the body is the JSON of a CreateLockRequest.
AddLockHandler(p, cred, decoded, filepath, at, cap) ==
    LET auth == checkAuthentication(cred.user, cred.pass, cred.ok)
    IN  IF Denied(auth) THEN Refuse(p, "add", cred, 403)
        ELSE IF ~decoded THEN Refuse(p, "add", cred, 400)
        ELSE /\ CallLockAdd(p, filepath, auth.user, at, cap)
             /\ request' = [request EXCEPT ![p] = Serving("add", cred)]

\* LockGet(id): the lock stored under id, or errObjectNotFound and no lock.
LockGetOp(b, id) ==
    LET value == BucketGet(b, id)
    IN  IF value = << >> THEN [NoRet EXCEPT !.err = ErrNotFound]
        ELSE [NoRet EXCEPT !.lock = Decode(value[1], ZeroLock)]

\* LockGet(id): one db.View over the committed buckets.
LockGet(p, id) ==
    /\ pc[p] = "idle"
    /\ ret' = [ret EXCEPT ![p] = LockGetOp(locks, id)]
    /\ call' = [call EXCEPT ![p] = [NoCall EXCEPT !.op = "LockGet", !.id = id]]
    /\ pc' = [pc EXCEPT ![p] = "done"]
    /\ UNCHANGED <<metaVars, page, locks, lockPaths, seq, writer, tx, local, issued, rivals>>

\* The store is not called: the handler goes on with what it has.
NoStoreCall(p) ==
    /\ pc[p] = "idle"
    /\ pc' = [pc EXCEPT ![p] = "done"]
    /\ UNCHANGED <<metaVars, page, locks, lockPaths, seq, writer, tx, call, local, ret,
                   issued, rivals>>

\* The cursor parameter: ParseUint(params.Cursor, 16, 64), 0 when it fails.
CursorParam(s) == IF ParseUint(s).err THEN 0 ELSE ParseUint(s).value

\* listLocksHandler, up to the call of LockGet or LockList; decoded is whether
\* the form decodes into a ListLocksRequest.
ListLocksHandler(p, cred, decoded, id, matchpath, cursor, limit) ==
    LET auth == checkAuthentication(cred.user, cred.pass, cred.ok)
    IN  IF Denied(auth) THEN Refuse(p, "list", cred, 403)
        ELSE IF ~decoded THEN Refuse(p, "list", cred, 400)
        ELSE /\ request' = [request EXCEPT ![p] = Serving("list", cred)]
             /\ IF id # << >>
                THEN IF ParseUint(id).err THEN NoStoreCall(p)
                     ELSE LockGet(p, ParseUint(id).value)
                ELSE LockList(p, matchpath, CursorParam(cursor), limit) /\ UNCHANGED page

\* verifyLocksHandler, up to the call of LockList("", cursor, params.Limit).
VerifyLocksHandler(p, cred, decoded, cursor, limit) ==
    LET auth == checkAuthentication(cred.user, cred.pass, cred.ok)
    IN  IF Denied(auth) THEN Refuse(p, "verify", cred, 403)
        ELSE IF ~decoded THEN Refuse(p, "verify", cred, 400)
        ELSE /\ request' = [request EXCEPT ![p] = Serving("verify", cred)]
             /\ LockList(p, << >>, CursorParam(cursor), limit)
             /\ UNCHANGED page

\* deleteLockHandler, up to the call of LockDelete(id, user, params.Force).
DeleteLockHandler(p, cred, id, decoded, force) ==
    LET auth == checkAuthentication(cred.user, cred.pass, cred.ok)
    IN  IF Denied(auth) THEN Refuse(p, "delete", cred, 403)
        ELSE IF ParseUint(id).err \/ ~decoded THEN Refuse(p, "delete", cred, 400)
        ELSE /\ CallLockDelete(p, ParseUint(id).value, auth.user, force)
             /\ request' = [request EXCEPT ![p] = Serving("delete", cred)]

\* The response was not written: the handler panicked on a nil *MetaLock.
Panicked == -1

\* The locks of ls that owner holds (mine), or that others hold.
RECURSIVE OwnedBy(_, _, _)
OwnedBy(ls, owner, mine) ==
    IF ls = << >> THEN << >>
    ELSE LET rest == OwnedBy(Tail(ls), owner, mine)
         IN  IF (Head(ls).Owner = owner) = mine THEN <<Head(ls)>> \o rest ELSE rest

\* What the handler writes once the store has returned.
Response(r, c, result) ==
    CASE r.handler = "add" ->
           [r EXCEPT !.status = IF result.err = ErrDuplicate THEN 409
                                ELSE IF result.err # ErrNone THEN 500 ELSE 201]
      [] r.handler = "delete" ->
           [r EXCEPT !.status = IF result.err = ErrUnauthorized THEN 403
                                ELSE IF result.err # ErrNone THEN 500 ELSE 200]
      [] r.handler = "verify" ->
           [r EXCEPT !.status = 200,
                     !.ours = OwnedBy(result.locks, r.user, TRUE),
                     !.theirs = OwnedBy(result.locks, r.user, FALSE)]
      [] r.handler = "list" /\ c.op = "LockGet" ->
           IF result.err # ErrNone THEN [r EXCEPT !.status = Panicked]
           ELSE [r EXCEPT !.status = 200]
      [] r.handler = "list" /\ c.op # "LockGet" ->
           [r EXCEPT !.status = 200, !.locks = result.locks]

\* The store has returned to the handler: the handler writes its response.
Respond(p) ==
    /\ pc[p] = "done"
    /\ request[p].handler # "none"
    /\ request[p].status = 0
    /\ request' = [request EXCEPT ![p] = Response(request[p], call[p], ret[p])]
    /\ UNCHANGED <<metaVars, page, locks, lockPaths, seq, writer, tx, pc, call, local, ret,
                   issued, rivals>>

\* The handler has returned: the request is over.
Served(p) ==
    /\ request[p].status # 0
    /\ Return(p)

-----------------------------------------------------------------------------
(* Specifications *)

\* One step of a LockAdd or LockDelete call by p that is under way.
Transact(p) ==
    \/ Update(p)
    \/ LockAddGet(p)
    \/ \E ok \in BOOLEAN : LockAddPutLocks(p, ok)
    \/ \E ok \in BOOLEAN : LockAddPutPaths(p, ok)
    \/ LockDeleteGet(p)
    \/ \E ok \in BOOLEAN : LockDeleteLocks(p, ok)
    \/ \E ok \in BOOLEAN : LockDeletePaths(p, ok)
    \/ \E ok \in BOOLEAN : Commit(p, ok)

\* One step of a LockAdd or LockDelete call by p, in a run of at most cap
\* successful LockAdd calls, on the given paths.
Step(p, cap, paths) ==
    \/ \E filepath \in paths, owner \in Owners, at \in Times :
          CallLockAdd(p, filepath, owner, at, cap) /\ UNCHANGED request
    \/ \E id \in 1 .. cap, owner \in Owners, force \in BOOLEAN :
          CallLockDelete(p, id, owner, force) /\ UNCHANGED request
    \/ Transact(p)
    \/ Return(p)

\* Concurrent callers of LockAdd and LockDelete.
Next == \E p \in Procs : Step(p, MaxSeq, Paths)

Spec == Init /\ [][Next]_vars

\* One caller of LockAdd, LockDelete and LockList.
NextList ==
    \/ Step(P1, MaxListSeq, ListPaths)
    \/ \E matchpath \in Patterns, cursor \in Cursors, limit \in Limits :
          LockList(P1, matchpath, cursor, limit) /\ UNCHANGED <<request, page>>

SpecList == Init /\ [][NextList]_vars

\* One caller that pages through LockList("", ..) while it adds and deletes locks.
NextCursor ==
    \/ Step(P1, MaxListSeq, ListPaths)
    \/ \E cursor \in Cursors, limit \in Limits :
          /\ LockList(P1, << >>, cursor, limit)
          /\ page' = PageAfterList(ret'[P1])
          /\ UNCHANGED request

SpecCursor == Init /\ [][NextCursor]_vars

\* A store that holds the n locks first .. first + n - 1, one per path, after
\* first + n - 1 successful LockAdd calls and first - 1 LockDelete calls.
Digit(d) == <<"0", "1", "2", "3", "4", "5", "6", "7", "8", "9">>[d + 1]

DecimalPath(id) ==
    <<"/", "f", "/", Digit(id \div 100), Digit((id \div 10) % 10), Digit(id % 10)>>

FilledLock(id) == Encode(MetaLock(id, DecimalPath(id), Alice, "t1"))

StoreSizes == {0, 1, MaxListLimit, MaxListLimit + 1}
FirstIds == {1, 200}
FilledPatterns == {<< >>, <<"/", "f", "/", "2", "*">>}
FilledCursors == {0, 256}
FilledLimits == {-1, 0, 1, MaxListLimit, MaxListLimit + 1, 2 * MaxListLimit}

InitFilled ==
    /\ \E first \in FirstIds, n \in StoreSizes :
          /\ locks = [id \in first .. (first + n - 1) |-> FilledLock(id)]
          /\ lockPaths = [path \in {DecimalPath(id) : id \in first .. (first + n - 1)} |->
                             FilledLock(CHOOSE id \in first .. (first + n - 1) :
                                            DecimalPath(id) = path)]
          /\ seq = first + n - 1
    /\ writer = NoProc
    /\ tx = [p \in Procs |-> NoTx]
    /\ pc = [p \in Procs |-> "idle"]
    /\ call = [p \in Procs |-> NoCall]
    /\ local = [p \in Procs |-> NoLocal]
    /\ ret = [p \in Procs |-> NoRet]
    /\ issued = << >>
    /\ rivals = [p \in Procs |-> {}]
    /\ objects = EmptyObjects
    /\ users = EmptyUsers
    /\ public = FALSE
    /\ request = [p \in Procs |-> NoRequest]
    /\ page = NoPage

\* One caller of LockList on a filled store.
NextFilled ==
    \/ \E matchpath \in FilledPatterns, cursor \in FilledCursors, limit \in FilledLimits :
          LockList(P1, matchpath, cursor, limit) /\ UNCHANGED <<request, page>>
    \/ Return(P1)

SpecFilled == InitFilled /\ [][NextFilled]_vars

\* Oids, sizes, user names and passwords handed to the object and user store.
Oid1 == <<"o">>
EmptyOid == << >>
Oids == {Oid1, EmptyOid}
Sizes == {0, 42}
UserU == <<"u">>
Names == {UserU, << >>}
Secrets == {<<"s">>, <<"s", ":", "t">>, << >>}
Passwords == Secrets \cup {<<"t">>, AdminPass}

\* base64.StdEncoding.EncodeToString(cs).
EncodeToString(cs) ==
    [i \in 1 .. Len(cs) |-> CHOOSE n \in 1 .. Len(Alphabet) : Alphabet[n] = cs[i]]

\* "Basic " + base64(user + ":" + password).
BasicAuthorization(user, password) ==
    [scheme |-> "Basic ", payload |-> EncodeToString(user \o <<":">> \o password)]

\* Authorization strings: none, another scheme, not base64, no separator, and
\* well-formed ones.
Authorizations ==
    {NoAuthorization,
     [scheme |-> "Bearer ", payload |-> EncodeToString(<<"u", ":", "s">>)],
     [scheme |-> "Basic ", payload |-> <<0>>],
     [scheme |-> "Basic ", payload |-> EncodeToString(UserU)]}
    \cup {BasicAuthorization(user, password) :
             user \in {UserU, << >>, AdminUser}, password \in Passwords}

\* The authorization of the stored user, as the concurrent callers send it.
UserAuthorizations == {BasicAuthorization(UserU, <<"s">>)}

\* One step of a Get, Put, Delete, AddUser or DeleteUser call by p on the
\* given inputs.
MetaStep(p, auths, oids, sizes, names, secrets) ==
    \/ \E authorization \in auths, oid \in oids : CallGet(p, authorization, oid)
    \/ \E authorization \in auths, oid \in oids, size \in sizes :
          CallPut(p, authorization, oid, size)
    \/ \E authorization \in auths, oid \in oids : CallDelete(p, authorization, oid)
    \/ \E user \in names, pass \in secrets : CallAddUser(p, user, pass)
    \/ \E user \in names : CallDeleteUser(p, user)
    \/ GetAuth(p)
    \/ GetRead(p)
    \/ PutAuth(p)
    \/ PutGetAuth(p)
    \/ PutGet(p)
    \/ \E ok \in BOOLEAN : PutUpdate(p, ok)
    \/ DeleteAuth(p)
    \/ \E ok \in BOOLEAN : DeleteUpdate(p, ok)
    \/ \E ok \in BOOLEAN : AddUserUpdate(p, ok)
    \/ \E ok \in BOOLEAN : DeleteUserUpdate(p, ok)
    \/ Return(p)

\* The store is opened with the configuration public or not.
InitMeta ==
    /\ locks = EmptyBucket
    /\ lockPaths = EmptyBucket
    /\ seq = 0
    /\ writer = NoProc
    /\ tx = [p \in Procs |-> NoTx]
    /\ pc = [p \in Procs |-> "idle"]
    /\ call = [p \in Procs |-> NoCall]
    /\ local = [p \in Procs |-> NoLocal]
    /\ ret = [p \in Procs |-> NoRet]
    /\ issued = << >>
    /\ rivals = [p \in Procs |-> {}]
    /\ objects = EmptyObjects
    /\ users = EmptyUsers
    /\ public \in BOOLEAN
    /\ request = [p \in Procs |-> NoRequest]
    /\ page = NoPage

\* One caller of the object and user store.
NextMeta == MetaStep(P1, Authorizations, Oids, Sizes, Names, Secrets)

SpecMeta == InitMeta /\ [][NextMeta]_vars

\* Concurrent callers of the object and user store, with the authorization of
\* one user.
NextMetaRace ==
    \E p \in Procs : MetaStep(p, UserAuthorizations, {Oid1}, Sizes, {UserU}, {<<"s">>})

SpecMetaRace == InitMeta /\ [][NextMetaRace]_vars

\* The steps of p that read in a db.View: they take no lock.
Reads(p) ==
    \/ GetAuth(p)
    \/ GetRead(p)
    \/ PutAuth(p)
    \/ PutGetAuth(p)
    \/ PutGet(p)
    \/ DeleteAuth(p)

\* The steps of p that begin a db.Update: they wait for the writer lock.
Acquire(p) ==
    \/ Update(p)
    \/ \E ok \in BOOLEAN : PutUpdate(p, ok)
    \/ \E ok \in BOOLEAN : DeleteUpdate(p, ok)
    \/ \E ok \in BOOLEAN : AddUserUpdate(p, ok)
    \/ \E ok \in BOOLEAN : DeleteUserUpdate(p, ok)

\* The steps of p inside the write transaction it was granted.
InTransaction(p) ==
    \/ LockAddGet(p)
    \/ \E ok \in BOOLEAN : LockAddPutLocks(p, ok)
    \/ \E ok \in BOOLEAN : LockAddPutPaths(p, ok)
    \/ LockDeleteGet(p)
    \/ \E ok \in BOOLEAN : LockDeleteLocks(p, ok)
    \/ \E ok \in BOOLEAN : LockDeletePaths(p, ok)
    \/ \E ok \in BOOLEAN : Commit(p, ok)

LiveAuthorizations == {NoAuthorization, BasicAuthorization(AdminUser, AdminPass)}

\* Concurrent callers of every operation of the store.
NextLive ==
    \E p \in Procs :
       \/ \E at \in Times :
             CallLockAdd(p, PathAX, Alice, at, MaxLiveSeq) /\ UNCHANGED request
       \/ \E id \in 1 .. MaxLiveSeq :
             CallLockDelete(p, id, Alice, FALSE) /\ UNCHANGED request
       \/ LockList(p, << >>, 0, 1) /\ UNCHANGED <<request, page>>
       \/ Transact(p)
       \/ MetaStep(p, LiveAuthorizations, {Oid1}, {0}, {UserU}, {<<"s">>})

\* Every granted transaction goes on to its commit or rollback, every read goes
\* on, and the engine grants the writer lock to every caller that keeps
\* waiting for it.
Fairness ==
    \A p \in Procs :
       /\ WF_vars(Reads(p))
       /\ WF_vars(InTransaction(p))
       /\ SF_vars(Acquire(p))

SpecLive == Init /\ [][NextLive]_vars /\ Fairness

\* The "users" bucket the handlers run against.
HandlerUsers == [u \in {Alice, Bob} |-> IF u = Alice THEN <<"s">> ELSE <<"t">>]

\* What r.BasicAuth() reads: no Authorization header, a user with the stored
\* secret, a user with another user's secret, the administrator.
Credentials ==
    {[user |-> << >>, pass |-> << >>, ok |-> FALSE],
     [user |-> Alice, pass |-> <<"s">>, ok |-> TRUE],
     [user |-> Alice, pass |-> <<"t">>, ok |-> TRUE],
     [user |-> AdminUser, pass |-> AdminPass, ok |-> TRUE]}

HandlerPaths == {PathAX}
IdParams == {<<"1">>, <<"g">>}
CursorParams == {<< >>, <<"2">>}
HandlerLimits == {1}

InitHandlers ==
    /\ locks = EmptyBucket
    /\ lockPaths = EmptyBucket
    /\ seq = 0
    /\ writer = NoProc
    /\ tx = [p \in Procs |-> NoTx]
    /\ pc = [p \in Procs |-> "idle"]
    /\ call = [p \in Procs |-> NoCall]
    /\ local = [p \in Procs |-> NoLocal]
    /\ ret = [p \in Procs |-> NoRet]
    /\ issued = << >>
    /\ rivals = [p \in Procs |-> {}]
    /\ objects = EmptyObjects
    /\ users = HandlerUsers
    /\ public = FALSE
    /\ request = [p \in Procs |-> NoRequest]
    /\ page = NoPage

\* Concurrent requests to the four lock endpoints.
NextHandlers ==
    \E p \in Procs :
       \/ \E cred \in Credentials, decoded \in BOOLEAN, filepath \in HandlerPaths,
             at \in Times :
             AddLockHandler(p, cred, decoded, filepath, at, MaxSeq)
       \/ \E cred \in Credentials, decoded \in BOOLEAN, id \in IdParams \cup {<< >>},
             matchpath \in {<< >>, PathAX}, cursor \in {<< >>},
             limit \in HandlerLimits :
             ListLocksHandler(p, cred, decoded, id, matchpath, cursor, limit)
       \/ \E cred \in Credentials, decoded \in BOOLEAN, cursor \in CursorParams,
             limit \in HandlerLimits :
             VerifyLocksHandler(p, cred, decoded, cursor, limit)
       \/ \E cred \in Credentials, id \in IdParams, decoded \in BOOLEAN,
             force \in BOOLEAN :
             DeleteLockHandler(p, cred, id, decoded, force)
       \/ Transact(p)
       \/ Respond(p)
       \/ Served(p)

SpecHandlers == InitHandlers /\ [][NextHandlers]_vars

\* The process stops while calls are running and the store is opened again:
\* the open write transaction is lost, the committed buckets and sequence are
\* what the database file holds.
Crash ==
    /\ \E p \in Procs : Running(p)
    /\ tx' = [p \in Procs |-> NoTx]
    /\ writer' = NoProc
    /\ pc' = [p \in Procs |-> "idle"]
    /\ call' = [p \in Procs |-> NoCall]
    /\ local' = [p \in Procs |-> NoLocal]
    /\ ret' = [p \in Procs |-> NoRet]
    /\ rivals' = [p \in Procs |-> {}]
    /\ request' = [p \in Procs |-> NoRequest]
    /\ UNCHANGED <<locks, lockPaths, seq, issued, metaVars, page>>

\* Concurrent callers of LockAdd and LockDelete, and crashes.
NextCrash ==
    \/ \E p \in Procs : Step(p, MaxSeq, Paths)
    \/ Crash

SpecCrash == Init /\ [][NextCrash]_vars

-----------------------------------------------------------------------------
(* Properties *)

\* The record stored under id in the committed "locks" bucket.
StoredLock(id) == Decode(locks[id], ZeroLock)

\* The ids whose record in bucket b carries path.
LocksAt(b, path) == {i \in DOMAIN b : Decode(b[i], ZeroLock).Path = path}

Returned(p, op) == pc[p] = "done" /\ call[p].op = op

\* C1: in every reachable state no two entries of the id-indexed bucket
\* carry the same path.
C1_OneLockPerPath ==
    \A i, j \in DOMAIN locks : StoredLock(i).Path = StoredLock(j).Path => i = j

\* Two paths are locked and a further LockAdd for one of them was refused.
C1_Witness ==
    /\ Cardinality(DOMAIN locks) = 2
    /\ \E p \in Procs : Returned(p, "LockAdd") /\ ret[p].err = ErrDuplicate

\* C2: in every committed state a record is stored under its id in "locks"
\* iff the identical record is stored under its path in "lockPaths".
C2_PartitionsAgree ==
    /\ \A id \in DOMAIN locks :
          LET m == StoredLock(id)
          IN  /\ m.ID = id
              /\ m.Path \in DOMAIN lockPaths
              /\ lockPaths[m.Path] = locks[id]
    /\ \A path \in DOMAIN lockPaths :
          LET m == Decode(lockPaths[path], ZeroLock)
          IN  /\ m.Path = path
              /\ m.ID \in DOMAIN locks
              /\ locks[m.ID] = lockPaths[path]

\* A LockAdd failed after its write to "locks" (the empty path is refused by
\* "lockPaths"), and a LockDelete was refused, while a lock is stored.
C2_Witness ==
    /\ DOMAIN locks # {}
    /\ \E p \in Procs :
          /\ Returned(p, "LockAdd")
          /\ ret[p].err = ErrEngine
          /\ call[p].path = EmptyPath
    /\ \E p \in Procs : Returned(p, "LockDelete") /\ ret[p].err = ErrUnauthorized

\* C3: when LockAdd fails with errDuplicateObject, the lock it returns is the
\* stored record of the lock that holds the path.
C3_DuplicateReturnsHolder ==
    [][\A p \in Procs :
          (pc[p] = "add_get" /\ pc'[p] = "done" /\ ret'[p].err = ErrDuplicate)
             => ret'[p].lock = Decode(lockPaths[call[p].path], ZeroLock)]_vars

AddSucceeded(p) == Returned(p, "LockAdd") /\ ret[p].err = ErrNone

\* C4: of two overlapping LockAdd calls for the same path, with no LockDelete in
\* between, at most one succeeds; at most one write transaction is open, and
\* from a call's duplicate check to its commit the path stays unlocked.
C4_AtMostOneAddSucceeds ==
    /\ \A p, q \in Procs :
          (p # q /\ AddSucceeded(p) /\ AddSucceeded(q) /\ q \in rivals[p])
             => call[p].path # call[q].path
    /\ \A p, q \in Procs : (tx[p].open /\ tx[q].open) => p = q
    /\ \A p \in Procs :
          (call[p].op = "LockAdd" /\ pc[p] \in {"add_put_locks", "add_put_paths", "commit"})
             => call[p].path \notin DOMAIN lockPaths

\* Two overlapping LockAdd calls for one path have returned: one with the lock,
\* the other with errDuplicateObject.
C4_Witness ==
    \E p, q \in Procs :
        /\ p # q
        /\ q \in rivals[p]
        /\ AddSucceeded(p)
        /\ Returned(q, "LockAdd")
        /\ ret[q].err = ErrDuplicate
        /\ call[p].path = call[q].path

\* C5: the ids returned by successful LockAdd calls are strictly increasing in
\* the order of the calls, so no id is assigned twice.
C5_IdsIncrease ==
    \A i, j \in 1 .. Len(issued) : i < j => issued[i] < issued[j]

\* Lock 1 was deleted and its path locked again, under id 2.
C5_Witness ==
    \E p \in Procs :
        /\ Returned(p, "LockDelete")
        /\ ret[p].err = ErrNone
        /\ ret[p].lock.ID = 1
        /\ issued = <<1, 2>>
        /\ DOMAIN locks = {2}
        /\ StoredLock(2).Path = ret[p].lock.Path

\* C6: LockDelete(id, owner, false) on a stored lock of another owner returns
\* errUnauthorized (and no lock) and leaves both buckets as they were, the lock
\* still stored under its id and under its path.
C6_UnauthorizedDeleteKeepsLock ==
    [][\A p \in Procs :
          (/\ pc[p] = "del_get"
           /\ pc'[p] # "del_get"
           /\ call[p].id \in DOMAIN locks
           /\ ~call[p].force
           /\ StoredLock(call[p].id).Owner # call[p].owner)
             => /\ pc'[p] = "done"
                /\ ret'[p].err = ErrUnauthorized
                /\ ret'[p].lock = NilLock
                /\ locks' = locks
                /\ lockPaths' = lockPaths
                /\ call[p].id \in DOMAIN locks'
                /\ StoredLock(call[p].id).Path \in DOMAIN lockPaths'
                /\ lockPaths'[StoredLock(call[p].id).Path] = locks[call[p].id]]_vars

\* A LockDelete by another owner, without force, was refused; the lock is stored.
C6_Witness ==
    \E p \in Procs :
        /\ Returned(p, "LockDelete")
        /\ ret[p].err = ErrUnauthorized
        /\ call[p].id \in DOMAIN locks
        /\ StoredLock(call[p].id).Owner # call[p].owner

\* Whether some LockList call on bucket b returns a lock with this id.
Listed(b, id) ==
    \E matchpath \in Patterns, cursor \in Cursors, limit \in Limits :
        LET found == LockListOp(b, matchpath, cursor, limit).locks
        IN  \E i \in 1 .. Len(found) : found[i].ID = id

\* C7: LockDelete on a stored lock, with force or by its owner, is not refused;
\* when the engine accepts its writes it returns the record that was stored and
\* removes it from both buckets, so that no LockList call returns it; when the
\* engine does not, the call returns the engine's error and removes nothing.
C7_AuthorizedDeleteRemovesLock ==
    [][\A p \in Procs :
          /\ (/\ pc[p] = "del_get"
              /\ pc'[p] # "del_get"
              /\ call[p].id \in DOMAIN locks
              /\ (call[p].force \/ StoredLock(call[p].id).Owner = call[p].owner))
                => pc'[p] = "del_locks"
          /\ (/\ call[p].op = "LockDelete"
              /\ pc[p] = "commit"
              /\ pc'[p] = "done"
              /\ ret'[p].err = ErrNone)
                => /\ call[p].id \in DOMAIN locks
                   /\ ret'[p].lock = StoredLock(call[p].id)
                   /\ call[p].id \notin DOMAIN locks'
                   /\ StoredLock(call[p].id).Path \notin DOMAIN lockPaths'
                   /\ ~Listed(locks', call[p].id)
          /\ (/\ call[p].op = "LockDelete"
              /\ pc[p] \in {"del_locks", "del_paths", "commit"}
              /\ pc'[p] = "done"
              /\ ret'[p].err # ErrNone)
                => /\ ret'[p].err = ErrEngine
                   /\ locks' = locks
                   /\ lockPaths' = lockPaths]_vars

\* A forced LockDelete by another owner has removed a lock; another lock remains.
C7_Witness ==
    \E p \in Procs :
        /\ Returned(p, "LockDelete")
        /\ ret[p].err = ErrNone
        /\ call[p].force
        /\ ret[p].lock.Owner # call[p].owner
        /\ ret[p].lock.ID = call[p].id
        /\ call[p].id \notin DOMAIN locks
        /\ DOMAIN locks # {}

\* C8: LockAdd for a path that is locked, by whatever owner, fails with
\* errDuplicateObject and leaves both buckets as they were: exactly one lock
\* for the path, with the owner it had.
C8_SecondAddConflicts ==
    [][\A p \in Procs :
          (/\ pc[p] = "add_get"
           /\ pc'[p] # "add_get"
           /\ call[p].path \in DOMAIN lockPaths)
             => /\ pc'[p] = "done"
                /\ ret'[p].err = ErrDuplicate
                /\ locks' = locks
                /\ lockPaths' = lockPaths
                /\ Cardinality(LocksAt(locks', call[p].path)) = 1
                /\ \A i \in LocksAt(locks', call[p].path) :
                      Decode(locks'[i], ZeroLock).Owner =
                         Decode(lockPaths[call[p].path], ZeroLock).Owner]_vars

\* A second LockAdd by the holder of the lock itself was refused.
C8_Witness ==
    \E p \in Procs :
        /\ Returned(p, "LockAdd")
        /\ ret[p].err = ErrDuplicate
        /\ call[p].path \in DOMAIN lockPaths
        /\ Decode(lockPaths[call[p].path], ZeroLock).Owner = call[p].owner

\* C9: LockList returns hasMore exactly when it collected the clamped limit of
\* accepted entries and the bucket holds an entry after the last one visited
\* (the last one returned); with hasMore the cursor returned is that lock's
\* id + 1, without it the cursor argument.
C9_HasMoreAndCursor ==
    \A p \in Procs :
        Returned(p, "LockList") =>
            LET found == ret[p].locks
                n == Len(found)
                full == n = ClampLimit(call[p].limit)
                more == full /\ \E id \in DOMAIN locks : id > found[n].ID
            IN  /\ ret[p].pending = more
                /\ ret[p].pending => ret[p].cursor = found[n].ID + 1
                /\ ~ret[p].pending => ret[p].cursor = call[p].cursor

\* A filtered LockList stopped at its limit of 1 with entries left, and the
\* bucket holds three locks.
C9_Witness ==
    \E p \in Procs :
        /\ Returned(p, "LockList")
        /\ ret[p].pending
        /\ call[p].path # << >>
        /\ call[p].limit = 1
        /\ Cardinality(DOMAIN locks) = 3

\* C10: for every cursor c and limits a, b >= 1: when LockList("", c, a) has
\* returned hasMore with cursor c2 and the store is as it was, the returned list
\* followed by the list of LockList("", c2, b) is the list of
\* LockList("", c, a + b).
C10_PagesConcatenate ==
    \A p \in Procs :
        (/\ Returned(p, "LockList")
         /\ call[p].path = << >>
         /\ call[p].limit >= 1
         /\ ret[p].pending)
           => \A b \in 1 .. MaxLimit :
                 ret[p].locks \o LockListOp(locks, << >>, ret[p].cursor, b).locks
                    = LockListOp(locks, << >>, call[p].cursor, call[p].limit + b).locks

\* LockList("", 0, 1) has returned hasMore on a store of at least two locks.
C10_Witness ==
    \E p \in Procs :
        /\ Returned(p, "LockList")
        /\ call[p].path = << >>
        /\ call[p].cursor = 0
        /\ call[p].limit = 1
        /\ ret[p].pending
        /\ Cardinality(DOMAIN locks) >= 2

Ascending(found) ==
    \A i, j \in 1 .. Len(found) : i < j => found[i].ID < found[j].ID

\* C11: when LockList("", c, k) has returned hasMore with cursor c2, then after
\* any LockAdd and LockDelete calls a later LockList("", c2, k2) returns no lock
\* of the first page, only locks with id >= c2 in ascending id order, and leaves
\* out a stored lock with id >= c2 only beyond a full page.
C11_CursorStable ==
    [][\A p \in Procs :
          (/\ pc[p] = "idle"
           /\ pc'[p] = "done"
           /\ call'[p].op = "LockList"
           /\ call'[p].path = << >>
           /\ page.pending
           /\ call'[p].cursor = page.cursor)
             => LET later == ret'[p].locks
                    ids == {later[i].ID : i \in 1 .. Len(later)}
                IN  /\ ids \cap page.ids = {}
                    /\ \A id \in ids : id >= page.cursor /\ id \in DOMAIN locks
                    /\ Ascending(later)
                    /\ \A id \in DOMAIN locks \ ids :
                          id >= page.cursor
                             => /\ Len(later) = ClampLimit(call'[p].limit)
                                /\ id > later[Len(later)].ID]_vars

\* After a page with hasMore a lock was added and one deleted, and the
\* following page, asked from the cursor returned, holds the lock added.
C11_Witness ==
    \E p \in Procs :
        /\ Returned(p, "LockList")
        /\ call[p].path = << >>
        /\ page.pending
        /\ call[p].cursor = page.cursor
        /\ ~ret[p].pending
        /\ page.added
        /\ page.deleted
        /\ Len(ret[p].locks) >= 2
        /\ ret[p].locks[Len(ret[p].locks)].ID = MaxListSeq

\* The ids of the stored locks from cursor on whose path matches pattern.
Matching(pattern, cursor) ==
    {id \in DOMAIN locks : id >= cursor /\ Match(pattern, StoredLock(id).Path)}

\* C12: LockList(pattern, cursor, limit) with a non-empty pattern returns, in
\* ascending id order, the first min(clamped limit, m) of the m stored locks
\* with id >= cursor whose path matches pattern; the entries that do not match
\* are skipped and use up none of the limit.
C12_FilteredPage ==
    \A p \in Procs :
        (Returned(p, "LockList") /\ call[p].path # << >>)
          => LET found == ret[p].locks
                 ids == {found[i].ID : i \in 1 .. Len(found)}
                 m == Matching(call[p].path, call[p].cursor)
                 k == ClampLimit(call[p].limit)
             IN  /\ Len(found) = IF k < Cardinality(m) THEN k ELSE Cardinality(m)
                 /\ Ascending(found)
                 /\ ids \subseteq m
                 /\ \A i \in 1 .. Len(found) : found[i] = StoredLock(found[i].ID)
                 /\ \A id \in m \ ids : \A got \in ids : id > got

\* LockList("/a/*", 0, 1) on a store whose first lock is /b/y and whose second
\* is /a/x has returned the second lock alone.
C12_Witness ==
    \E p \in Procs :
        /\ Returned(p, "LockList")
        /\ call[p].path = <<"/", "a", "/", "*">>
        /\ call[p].limit = 1
        /\ call[p].cursor = 0
        /\ \E i, j \in DOMAIN locks :
              /\ i < j
              /\ StoredLock(i).Path = PathBY
              /\ StoredLock(j).Path = PathAX
              /\ ret[p].locks = <<StoredLock(j)>>

\* C13: on a store of n <= 100 locks LockList("", 0, limit) with
\* limit >= max(n, 1) returns exactly the n stored locks in strictly ascending
\* id order and hasMore = false; on the empty store the empty list, cursor 0
\* and hasMore = false.
C13_WholeStore ==
    \A p \in Procs :
        LET n == Cardinality(DOMAIN locks)
        IN  (/\ Returned(p, "LockList")
             /\ call[p].path = << >>
             /\ call[p].cursor = 0
             /\ n <= MaxListLimit
             /\ call[p].limit >= n
             /\ call[p].limit >= 1)
               => LET found == ret[p].locks
                  IN  /\ Len(found) = n
                      /\ {found[i] : i \in 1 .. n} = {StoredLock(id) : id \in DOMAIN locks}
                      /\ Ascending(found)
                      /\ ~ret[p].pending
                      /\ n = 0 => found = << >> /\ ret[p].cursor = 0

\* LockList("", 0, 100) has returned the 100 locks of a store whose ids run
\* across 256.
C13_Witness ==
    \E p \in Procs :
        /\ Returned(p, "LockList")
        /\ call[p].path = << >>
        /\ call[p].cursor = 0
        /\ call[p].limit = MaxListLimit
        /\ Cardinality(DOMAIN locks) = MaxListLimit
        /\ 256 \in DOMAIN locks
        /\ Len(ret[p].locks) = MaxListLimit

\* The record stored under oid in the committed "objects" bucket.
StoredObject(oid) == DecodeObject(objects[oid], ZeroObject)

\* A Put by p that passed the gate returns with this step.
PutReturns(p) ==
    /\ call[p].op = "Put"
    /\ pc[p] \in {"put_get_auth", "put_get", "put_update"}
    /\ pc'[p] = "done"

\* What C14 says of a Put that returns while its oid is absent: the record
\* (oid, size) with existing = false, which a following Get returns.
PutStores(p) ==
    /\ ret'[p].err = ErrNone
    /\ ret'[p].meta = MetaObject(call[p].oid, call[p].size)
    /\ UnsafeGetOp(objects', call[p].oid).err = ErrNone
    /\ UnsafeGetOp(objects', call[p].oid).meta.Oid = call[p].oid
    /\ UnsafeGetOp(objects', call[p].oid).meta.Size = call[p].size

\* What C14 says of a Put that returns while its oid is stored: the stored
\* record with existing = true, and the bucket as it was.
PutFindsExisting(p) ==
    /\ ret'[p].err = ErrNone
    /\ ret'[p].meta = [StoredObject(call[p].oid) EXCEPT !.Existing = TRUE]
    /\ objects' = objects

\* C14 as stated, for every oid: with an accepted credential and sequential
\* calls, on an engine whose write does not fail, Put on an absent oid returns
\* existing = false and a following Get returns that oid and size; Put on a
\* stored oid returns the stored record with existing = true and leaves the
\* stored size as it was.
C14_PutEveryOid ==
    [][\A p \in Procs :
          PutReturns(p) /\ ret'[p].err # ErrEngine
            => IF call[p].oid \in DOMAIN objects THEN PutFindsExisting(p)
               ELSE PutStores(p)]_vars

\* C14: the same for every oid but the empty one, which the engine refuses as
\* a key.
C14_PutThenGet ==
    [][\A p \in Procs :
          PutReturns(p) /\ ret'[p].err # ErrEngine /\ call[p].oid # EmptyOid
            => IF call[p].oid \in DOMAIN objects THEN PutFindsExisting(p)
               ELSE PutStores(p)]_vars

\* A second Put of a stored oid with another size has returned the stored
\* record with existing = true, and the stored size is the first one.
C14_Witness ==
    \E p \in Procs :
        /\ Returned(p, "Put")
        /\ ret[p].err = ErrNone
        /\ ret[p].meta.Existing
        /\ ret[p].meta.Size # call[p].size
        /\ call[p].oid \in DOMAIN objects
        /\ StoredObject(call[p].oid).Size = ret[p].meta.Size
        /\ ~public

\* C15: Get, Put and Delete called with an authorization that authenticate
\* rejects return the authentication error and no record, and leave the
\* "objects" bucket as it was; the decision is the first step of the call,
\* taken before the bucket is read or written.
C15_RejectedLeavesObjects ==
    [][\A p \in Procs :
          /\ (pc[p] = "idle" /\ call'[p].op \in {"Get", "Put", "Delete"})
                => /\ pc'[p] \in {"get_auth", "put_auth", "delete_auth"}
                   /\ objects' = objects
          /\ (/\ pc[p] \in {"get_auth", "put_auth", "delete_auth"}
              /\ pc'[p] # pc[p]
              /\ ~authenticate(call[p].authorization))
                => /\ pc'[p] = "done"
                   /\ ret'[p].err = ErrAuth
                   /\ ret'[p].meta = NilObject
                   /\ objects' = objects]_vars

\* A Delete of a stored oid was refused with the authentication error, the
\* authorization naming a stored user with another password.
C15_Witness ==
    \E p \in Procs :
        /\ Returned(p, "Delete")
        /\ ret[p].err = ErrAuth
        /\ call[p].oid \in DOMAIN objects
        /\ UserU \in DOMAIN users
        /\ call[p].authorization = BasicAuthorization(UserU, <<"t">>)

\* C16: when the store is not public and (user, password) is not the
\* administrator's credential, authenticate accepts the well-formed Basic
\* authorization of (user, password) if and only if the "users" bucket holds a
\* record for user whose secret equals password, after any AddUser and
\* DeleteUser calls and for every secret AddUser stores.
C16_AcceptsIffSecretMatches ==
    ~public =>
        \A user \in {UserU, << >>}, password \in Passwords :
            ~checkBasicAuth(user, password, TRUE) =>
                (authenticate(BasicAuthorization(user, password))
                    <=> (user \in DOMAIN users /\ users[user] = password))

\* C17: under any interleaving of concurrent Put, Delete, AddUser and
\* DeleteUser calls a Put writes to the "objects" bucket only if its oid is
\* absent at the moment of the write.
C17_PutNeverOverwrites ==
    [][\A p \in Procs :
          (pc[p] = "put_update" /\ pc'[p] = "done" /\ ret'[p].err = ErrNone)
             => call[p].oid \notin DOMAIN objects]_vars

\* A LockAdd by p that has drawn its id fails with this step, or is cut off by
\* a crash.
AddFailsAfterDraw(p) ==
    /\ call[p].op = "LockAdd"
    /\ pc[p] \in {"add_put_locks", "add_put_paths", "commit"}
    /\ \/ pc'[p] = "idle"
       \/ pc'[p] = "done" /\ ret'[p].err # ErrNone

\* C18: a LockAdd that fails, or is cut off by a crash, after it drew its id
\* and before the commit leaves the committed buckets and sequence as they
\* were, with no record of the drawn id in either bucket; and in no committed
\* state does "locks" hold an entry without its entry in "lockPaths".
C18_FailedAddLeavesNoTrace ==
    [][/\ \A p \in Procs :
            AddFailsAfterDraw(p)
              => /\ locks' = locks
                 /\ lockPaths' = lockPaths
                 /\ seq' = seq
                 /\ local[p].meta.ID \notin DOMAIN locks'
                 /\ \A path \in DOMAIN lockPaths' :
                       Decode(lockPaths'[path], ZeroLock).ID # local[p].meta.ID
       /\ \A id \in DOMAIN locks' :
            LET path == Decode(locks'[id], ZeroLock).Path
            IN  path \in DOMAIN lockPaths' /\ lockPaths'[path] = locks'[id]]_vars

\* A LockAdd that had drawn the id after the committed sequence failed on an
\* engine error, in a store that holds a lock.
C18_Witness ==
    \E p \in Procs :
        /\ Returned(p, "LockAdd")
        /\ ret[p].err = ErrEngine
        /\ local[p].meta.ID = seq + 1
        /\ local[p].meta.ID \notin DOMAIN locks
        /\ DOMAIN locks # {}

\* The request's credentials pass checkAuthentication.
Authenticated(r) == checkAuthentication(r.user, r.pass, r.ok).err = ErrNone

LockManagerOps == {"LockAdd", "LockList", "LockGet", "LockDelete"}

\* A handler has called the Lock Manager for the request of p.
StoreCalled(p) == request[p].handler # "none" /\ call[p].op \in LockManagerOps

\* The step is a request of p with rejected credentials reaching its handler.
RejectedRequest(p) ==
    /\ request[p].handler = "none"
    /\ request'[p].handler # "none"
    /\ ~Authenticated(request'[p])

\* C19: every lock request handler (add, list, verify, delete) calls the Lock
\* Manager only after checkAuthentication succeeded for the request, the owner
\* it passes being the authenticated user; a request whose credentials are
\* rejected is answered 403, causes no LockAdd, LockList, LockGet or LockDelete
\* call and changes nothing of the lock state.
C19_HandlersAuthenticateFirst ==
    /\ [](\A p \in Procs :
             StoreCalled(p) =>
                /\ Authenticated(request[p])
                /\ call[p].op \in {"LockAdd", "LockDelete"} => call[p].owner = request[p].user)
    /\ [][\A p \in Procs :
             RejectedRequest(p) =>
                /\ request'[p].status = 403
                /\ call'[p].op = "none"
                /\ pc'[p] = "done"
                /\ UNCHANGED <<locks, lockPaths, seq, writer, tx>>]_vars

\* An unlock request for lock 1 with a wrong password for its owner was
\* refused while the lock is held, and the other caller's authenticated
\* request is inside LockDelete.
C19_Witness ==
    /\ request[P1].handler = "delete"
    /\ request[P1].user = Alice
    /\ ~Authenticated(request[P1])
    /\ request[P1].status = 403
    /\ 1 \in DOMAIN locks
    /\ Decode(locks[1], ZeroLock).Owner = Alice
    /\ request[P2].handler = "delete"
    /\ call[P2].op = "LockDelete"
    /\ pc[P2] = "del_locks"

\* min(max(limit, 1), 100)
MostLocks(limit) ==
    LET atLeastOne == IF limit > 1 THEN limit ELSE 1
    IN  IF atLeastOne < MaxListLimit THEN atLeastOne ELSE MaxListLimit

\* What LockList returned to p: locks, next cursor, hasMore.
ListResult(p) ==
    [locks |-> ret[p].locks, cursor |-> ret[p].cursor, pending |-> ret[p].pending]

\* C20: LockList clamps limit to [1, 100]: for every limit it returns at most
\* min(max(limit, 1), 100) locks, and a call with a limit below 1 returns what
\* the same call with limit 1 returns.
C20_LimitClamped ==
    \A p \in Procs :
       Returned(p, "LockList") =>
          /\ Len(ret[p].locks) <= MostLocks(call[p].limit)
          /\ call[p].limit < 1 =>
                ListResult(p) = LockListOp(locks, call[p].path, call[p].cursor, 1)

\* LockList with limit 200 over a store of 101 locks has returned 100 locks
\* and hasMore.
C20_Witness ==
    /\ Returned(P1, "LockList")
    /\ call[P1].limit = 2 * MaxListLimit
    /\ Cardinality(DOMAIN locks) = MaxListLimit + 1
    /\ Len(ret[P1].locks) = MaxListLimit
    /\ ret[P1].pending

\* The positions of an operation inside the write transaction it was granted.
TransactionPositions ==
    {"add_get", "add_put_locks", "add_put_paths", "del_get", "del_locks", "del_paths",
     "commit"}

\* The positions at which an operation reads in a db.View.
ReadPositions ==
    {"get_auth", "get_read", "put_auth", "put_get_auth", "put_get", "delete_auth"}

\* An operation holds a transaction exactly while it is inside it: it holds
\* none when it requests one, reads, or has returned.
HoldsOnlyInside ==
    \A p \in Procs :
       /\ writer = p <=> pc[p] \in TransactionPositions
       /\ tx[p].open <=> pc[p] \in TransactionPositions

\* A read in a db.View goes on whoever holds the writer lock.
ReadsNeverWait == \A p \in Procs : pc[p] \in ReadPositions => ENABLED Reads(p)

\* C21: under any interleaving of concurrent operations over a fair
\* single-writer engine, every invoked operation (Get, Put, Delete, AddUser,
\* DeleteUser, LockAdd, LockDelete, LockList) eventually returns: no operation
\* requests a transaction while it holds another one, and a read-only step
\* never waits for a writer.
C21_EveryOperationReturns ==
    /\ []HoldsOnlyInside
    /\ []ReadsNeverWait
    /\ \A p \in Procs : Running(p) ~> pc[p] = "done"

\* A Put waits for the writer lock that a LockAdd in its transaction holds,
\* after both its reads went through.
C21_Witness ==
    /\ pc[P1] = "put_update"
    /\ call[P1].op = "Put"
    /\ writer = P2
    /\ call[P2].op = "LockAdd"
    /\ pc[P2] = "add_put_paths"

\* The handler of p has answered a list-locks request whose id parameter
\* parsed: it looked the id up with LockGet.
AnsweredById(p) ==
    /\ request[p].handler = "list"
    /\ call[p].op = "LockGet"
    /\ request[p].status # 0

\* C22: a list-locks request with a non-empty id parameter that parses to the
\* id of a held lock is answered with a lock list of exactly that lock, one
\* whose id names no held lock with an empty lock list, and the handler
\* completes normally in both cases.
C22_ListById ==
    \A p \in Procs :
       AnsweredById(p) =>
          /\ request[p].status = 200
          /\ request[p].locks = IF ret[p].err = ErrNone THEN <<ret[p].lock>> ELSE << >>

\* LockList has returned hasMore to p, with the next cursor.
HasMore(p) == Returned(p, "LockList") /\ ret[p].pending

\* What the following call returns: the same pattern and limit, the cursor
\* that was handed out, the store as it is.
FollowingPage(p) == LockListOp(locks, call[p].path, ret[p].cursor, call[p].limit)

\* C23 as stated: whenever LockList(pattern, c, k) returns hasMore with next
\* cursor c', a following LockList(pattern, c', k) with no mutation in between
\* returns at least one lock, for every pattern, empty or not.
C23_NextPageNonEmpty ==
    \A p \in Procs : HasMore(p) => Len(FollowingPage(p).locks) > 0

\* C23, amended: whenever LockList(pattern, c, k) returns hasMore with next
\* cursor c', the store holds a lock with an id of c' or more; with the empty
\* pattern a following LockList("", c', k) with no mutation in between returns
\* at least one lock.
C23_NextPageHasEntries ==
    \A p \in Procs :
       HasMore(p) =>
          /\ \E id \in DOMAIN locks : id >= ret[p].cursor
          /\ call[p].path = << >> => Len(FollowingPage(p).locks) > 0

\* LockList("", 0, 1) over three locks has returned lock 1, hasMore and the
\* cursor 2; the following page holds lock 2.
C23_Witness ==
    /\ HasMore(P1)
    /\ call[P1].path = << >>
    /\ Cardinality(DOMAIN locks) = 3
    /\ ret[P1].cursor = 2
    /\ Len(FollowingPage(P1).locks) = 1
    /\ FollowingPage(P1).locks[1].ID = 2

=============================================================================
